---- MODULE Spec2Model ----
(***************************************************************************)
(* MPSSE command encoder: the command model of src/src/command.rs and the  *)
(* ownership-transferring Builder of src/src/builder.rs (src/src/lib.rs is *)
(* the earlier copy of the same Builder, whose build() returns the         *)
(* CommandList instead of its bytes).                                      *)
(*                                                                         *)
(* Bytes are integers 0..255, u16 values integers 0..65535.  Arrays of     *)
(* eight pins are sequences of length 8: element i of the Rust array is    *)
(* element i+1 of the sequence.                                            *)
(***************************************************************************)
EXTENDS Integers, Sequences, FiniteSets

VARIABLES
    pc,               \* which value of the ownership chain is live
    commands,         \* Builder.commands / CommandList.0
    sub,              \* the fields of the live sub-builder (parent excluded)
    out,              \* the byte sequence returned by the terminal flatten
    resp,             \* the value returned by CommandList::expected_response_length
    call,             \* the arguments of the caller's latest Builder method call
                      \* and of the latest call of each setter on its sub-builder
    overflow_checks,  \* build profile: TRUE panics on integer overflow, FALSE wraps
    codec             \* a pin array / byte conversion in progress (SpecCodec)

vars == <<pc, commands, sub, out, resp, call, overflow_checks, codec>>

(***************************************************************************)
(* The longest chain of commands the caller builds.                        *)
(***************************************************************************)
MaxCmds == 2

(***************************************************************************)
(* u8 arithmetic.                                                          *)
(***************************************************************************)
Bit(x, i) == (x \div (2 ^ i)) % 2

FromBits(f) ==
    f[0] + 2 * f[1] + 4 * f[2] + 8 * f[3] + 16 * f[4] + 32 * f[5] + 64 * f[6] + 128 * f[7]

BitOr(a, b) == FromBits([i \in 0..7 |-> IF Bit(a, i) = 1 \/ Bit(b, i) = 1 THEN 1 ELSE 0])

BitAnd(a, b) == FromBits([i \in 0..7 |-> IF Bit(a, i) = 1 /\ Bit(b, i) = 1 THEN 1 ELSE 0])

\* u8 << n for n < 8: the bits shifted out are dropped
Shl8(x, n) == (x * (2 ^ n)) % 256

\* u8::reverse_bits
ReverseBits(x) == FromBits([i \in 0..7 |-> Bit(x, 7 - i)])

\* u16::to_le_bytes
to_le_bytes(x) == <<x % 256, x \div 256>>

(***************************************************************************)
(* The enums of command.rs.                                                *)
(***************************************************************************)
ClockDirection == {"Rising", "Falling"}
BitDirection == {"LsbFirst", "MsbFirst"}
PinRange == {"High", "Low"}
PinValue == {"High", "Low"}
PinDirection == {"Input", "Output"}

PinValueArray == [1..8 -> PinValue]
PinDirectionArray == [1..8 -> PinDirection]

(***************************************************************************)
(* Bit-array codec.                                                        *)
(***************************************************************************)
PinValueArray_into_u8(array) ==
    LET acc[i \in 0..8] ==
            IF i = 0 THEN 0
            ELSE BitOr(acc[i - 1], IF array[i] = "High" THEN Shl8(1, i - 1) ELSE Shl8(0, i - 1))
    IN  acc[8]

PinValueArray_from_u8_unreversed(value) ==
    [i \in 1..8 |-> IF BitAnd(Shl8(value, i - 1), 128) = 128 THEN "High" ELSE "Low"]

PinValueArray_from_u8(value) ==
    LET reversed == ReverseBits(value)
    IN  [i \in 1..8 |-> IF BitAnd(Shl8(reversed, i - 1), 128) = 128 THEN "High" ELSE "Low"]

PinDirectionArray_into_u8(array) ==
    LET acc[i \in 0..8] ==
            IF i = 0 THEN 0
            ELSE BitOr(acc[i - 1], IF array[i] = "Input" THEN Shl8(0, i - 1) ELSE Shl8(1, i - 1))
    IN  acc[8]

PinDirectionArray_from_u8(value) ==
    LET reversed == ReverseBits(value)
    IN  [i \in 1..8 |-> IF BitAnd(Shl8(reversed, i - 1), 128) = 128 THEN "Output" ELSE "Input"]

(***************************************************************************)
(* Option encoder.                                                         *)
(***************************************************************************)
FullDataShiftOptions_default ==
    [read_clock_direction  |-> "Rising",
     write_clock_direction |-> "Rising",
     bit_direction         |-> "MsbFirst",
     write_tdi             |-> FALSE,
     read_tdo              |-> FALSE,
     write_tms             |-> FALSE]

FullDataShiftOptions_into_u8(o) ==
    LET b0 == 0
        b1 == BitOr(b0, IF o.write_clock_direction = "Rising" THEN 0 ELSE 1)
        b2 == BitOr(b1, IF o.read_clock_direction = "Rising" THEN 0 ELSE 4)
        b3 == BitOr(b2, IF o.bit_direction = "MsbFirst" THEN 0 ELSE 8)
        b4 == BitOr(b3, IF o.write_tdi THEN 16 ELSE 0)
        b5 == BitOr(b4, IF o.read_tdo THEN 32 ELSE 0)
        b6 == BitOr(b5, IF o.write_tms THEN 64 ELSE 0)
    IN  b6

DataShiftOptions(clock, bits) == [clock_direction |-> clock, bit_direction |-> bits]

\* Into<FullDataShiftOptions> for DataShiftOptions
DataShiftOptions_into_full(o) ==
    [FullDataShiftOptions_default EXCEPT
        !.read_clock_direction = o.clock_direction,
        !.bit_direction = o.bit_direction]

\* Into<u8> for DataShiftOptions
DataShiftOptions_into_u8(o) == FullDataShiftOptions_into_u8(DataShiftOptions_into_full(o))

(***************************************************************************)
(* Command model.  A conversion to bytes either returns the bytes or       *)
(* panics: `length - 1` and `bytes.len() - 1` are unchecked subtractions,  *)
(* which panic when the build checks overflow and wrap when it does not.   *)
(***************************************************************************)
Bytes(b) == [ok |-> TRUE, bytes |-> b]
Panic == [ok |-> FALSE, bytes |-> <<>>]

\* a - 1 on an unsigned integer of `width` bits
SubOne(a, width) == [ok |-> ~(a = 0 /\ overflow_checks), val |-> (a - 1) % (2 ^ width)]

\* (len - 1) as u16 on a usize: 2^64 is a multiple of 2^16, so the wrapped
\* difference truncates to (len - 1) mod 2^16
LenMinusOneAsU16(len) == [ok |-> ~(len = 0 /\ overflow_checks), val |-> (len - 1) % 65536]

ShiftOpcode(options, tdi, tdo) ==
    FullDataShiftOptions_into_u8(
        [FullDataShiftOptions_default EXCEPT
            !.write_clock_direction = options.clock_direction,
            !.bit_direction = options.bit_direction,
            !.write_tdi = tdi,
            !.read_tdo = tdo])

Command_expected_response_length_bits_as_length(cmd) ==
    CASE cmd.kind = "ReadDataShiftBits"   -> cmd.length
      [] cmd.kind = "WriteDataShiftBits"  -> 0
      [] cmd.kind = "WriteDataShiftBytes" -> 0
      [] cmd.kind = "ReadDataShiftBytes"  -> cmd.length
      [] cmd.kind = "SetBits"             -> 0
      [] cmd.kind = "ReadBits"            -> 1
      [] cmd.kind = "SetLoopback"         -> 0
      [] cmd.kind = "SetClockDivisor"     -> 0
      [] cmd.kind = "WaitForIo"           -> 1

Command_expected_response_length(cmd) ==
    CASE cmd.kind = "ReadDataShiftBits"   -> 1
      [] cmd.kind = "WriteDataShiftBits"  -> 0
      [] cmd.kind = "WriteDataShiftBytes" -> 0
      [] cmd.kind = "ReadDataShiftBytes"  -> cmd.length
      [] cmd.kind = "SetBits"             -> 0
      [] cmd.kind = "ReadBits"            -> 1
      [] cmd.kind = "SetLoopback"         -> 0
      [] cmd.kind = "SetClockDivisor"     -> 0
      [] cmd.kind = "WaitForIo"           -> 1

WriteDataShiftBits_into_vec(cmd) ==
    LET opcode == ShiftOpcode(cmd.options, TRUE, FALSE)
        len    == SubOne(cmd.length, 8)
    IN  IF len.ok THEN Bytes(<<BitOr(opcode, 2), len.val, cmd.bits>>) ELSE Panic

ReadDataShiftBits_into_vec(cmd) ==
    LET opcode == ShiftOpcode(cmd.options, FALSE, TRUE)
        len    == SubOne(cmd.length, 8)
    IN  IF len.ok THEN Bytes(<<BitOr(opcode, 2), len.val>>) ELSE Panic

WriteDataShiftBytes_into_vec_no_length(cmd) ==
    Bytes(<<ShiftOpcode(cmd.options, TRUE, FALSE)>> \o to_le_bytes(Len(cmd.bytes) % 65536) \o cmd.bytes)

WriteDataShiftBytes_into_vec(cmd) ==
    LET opcode == ShiftOpcode(cmd.options, TRUE, FALSE)
        len    == LenMinusOneAsU16(Len(cmd.bytes))
    IN  IF len.ok THEN Bytes(<<opcode>> \o to_le_bytes(len.val) \o cmd.bytes) ELSE Panic

ReadDataShiftBytes_into_vec_read_edge(cmd) ==
    LET opcode == FullDataShiftOptions_into_u8(
                      [FullDataShiftOptions_default EXCEPT
                          !.read_clock_direction = cmd.options.clock_direction,
                          !.bit_direction = cmd.options.bit_direction,
                          !.read_tdo = TRUE])
        len    == SubOne(cmd.length, 16)
    IN  IF len.ok THEN Bytes(<<opcode>> \o to_le_bytes(len.val)) ELSE Panic

ReadDataShiftBytes_into_vec(cmd) ==
    LET opcode == ShiftOpcode(cmd.options, FALSE, TRUE)
        len    == SubOne(cmd.length, 16)
    IN  IF len.ok THEN Bytes(<<opcode>> \o to_le_bytes(len.val)) ELSE Panic

SetBits_into_vec_direction_first(cmd) ==
    Bytes(<<IF cmd.range = "Low" THEN 128 ELSE 130,
            PinDirectionArray_into_u8(cmd.direction),
            PinValueArray_into_u8(cmd.value)>>)

SetBits_into_vec_ranges_swapped(cmd) ==
    Bytes(<<IF cmd.range = "Low" THEN 130 ELSE 128,
            PinValueArray_into_u8(cmd.value),
            PinDirectionArray_into_u8(cmd.direction)>>)

SetBits_into_vec(cmd) ==
    Bytes(<<IF cmd.range = "Low" THEN 128 ELSE 130,
            PinValueArray_into_u8(cmd.value),
            PinDirectionArray_into_u8(cmd.direction)>>)

ReadBits_into_vec(cmd) == Bytes(<<IF cmd.range = "Low" THEN 129 ELSE 131>>)

SetLoopback_into_vec(cmd) == Bytes(<<IF cmd.enable THEN 132 ELSE 133>>)

SetClockDivisor_into_vec(cmd) == Bytes(<<134>> \o to_le_bytes(cmd.divisor))

WaitForIo_into_vec_levels_swapped(cmd) == Bytes(<<IF cmd.value = "High" THEN 137 ELSE 136>>)

WaitForIo_into_vec(cmd) == Bytes(<<IF cmd.value = "High" THEN 136 ELSE 137>>)

Command_into_vec(cmd) ==
    CASE cmd.kind = "WriteDataShiftBits"  -> WriteDataShiftBits_into_vec(cmd)
      [] cmd.kind = "ReadDataShiftBits"   -> ReadDataShiftBits_into_vec(cmd)
      [] cmd.kind = "WriteDataShiftBytes" -> WriteDataShiftBytes_into_vec(cmd)
      [] cmd.kind = "ReadDataShiftBytes"  -> ReadDataShiftBytes_into_vec(cmd)
      [] cmd.kind = "SetBits"             -> SetBits_into_vec(cmd)
      [] cmd.kind = "ReadBits"            -> ReadBits_into_vec(cmd)
      [] cmd.kind = "SetLoopback"         -> SetLoopback_into_vec(cmd)
      [] cmd.kind = "SetClockDivisor"     -> SetClockDivisor_into_vec(cmd)
      [] cmd.kind = "WaitForIo"           -> WaitForIo_into_vec(cmd)

(***************************************************************************)
(* Command list.                                                           *)
(***************************************************************************)
\* for command in self.0 { result.extend(command) }, newest command first
CommandList_into_iter_prepending(list) ==
    LET result[i \in 0..Len(list)] ==
            IF i = 0 THEN Bytes(<<>>)
            ELSE LET encoded == Command_into_vec(list[i])
                 IN  IF result[i - 1].ok /\ encoded.ok
                     THEN Bytes(encoded.bytes \o result[i - 1].bytes)
                     ELSE Panic
    IN  result[Len(list)]

\* for command in self.0 { result.extend(command) }
CommandList_into_iter(list) ==
    LET result[i \in 0..Len(list)] ==
            IF i = 0 THEN Bytes(<<>>)
            ELSE LET encoded == Command_into_vec(list[i])
                 IN  IF result[i - 1].ok /\ encoded.ok
                     THEN Bytes(result[i - 1].bytes \o encoded.bytes)
                     ELSE Panic
    IN  result[Len(list)]

\* self.0.iter().map(|cmd| cmd.expected_response_length()).fold(0, |acc, cur| acc + cur)
expected_response_length_fold(list) ==
    LET acc[i \in 0..Len(list)] ==
            IF i = 0 THEN 0 ELSE acc[i - 1] + Command_expected_response_length(list[i])
    IN  acc[Len(list)]

(***************************************************************************)
(* f64 frequencies.  A finite frequency is the rational num/den (den > 0); *)
(* the inputs drawn below are ones whose f64 quotient 6_000_000 / f lies   *)
(* far enough from the next integer-plus-half for the rounded and the      *)
(* exact quotient to floor alike, or is computed exactly.                  *)
(***************************************************************************)
Finite(n, d) == [kind |-> "finite", num |-> n, den |-> d]
NaN == [kind |-> "nan", num |-> 0, den |-> 1]
Infinity == [kind |-> "inf", num |-> 0, den |-> 1]

Floored(v) == [kind |-> "finite", val |-> v]

\* (6_000_000f64 / frequency).floor(): the variant of the computation
\* that forgets the half
DivisorFloor_no_half(f) ==
    CASE f.kind = "nan" -> [kind |-> "nan", val |-> 0]
      [] f.kind = "inf" -> Floored(0)
      [] f.kind = "finite" /\ f.num = 0 -> [kind |-> "inf", val |-> 0]
      [] f.kind = "finite" /\ f.num > 0 -> Floored((6000000 * f.den) \div f.num)
      [] f.kind = "finite" /\ f.num < 0 -> Floored((0 - 6000000 * f.den) \div (0 - f.num))

\* (6_000_000f64 / frequency - 0.5).floor(): 6e6 / (num/den) - 1/2 is
\* (12e6 * den - num) / (2 * num); 6e6 / 0.0 is +inf and 6e6 / inf is 0.0
DivisorFloor(f) ==
    CASE f.kind = "nan" -> [kind |-> "nan", val |-> 0]
      [] f.kind = "inf" -> Floored(-1)
      [] f.kind = "finite" /\ f.num = 0 -> [kind |-> "inf", val |-> 0]
      [] f.kind = "finite" /\ f.num > 0 ->
            Floored((12000000 * f.den - f.num) \div (2 * f.num))
      [] f.kind = "finite" /\ f.num < 0 ->
            Floored((f.num - 12000000 * f.den) \div (2 * (0 - f.num)))

\* f64 as u16: NaN gives 0, everything else saturates to 0..65535
f64_as_u16(x) ==
    CASE x.kind = "nan" -> 0
      [] x.kind = "inf" -> 65535
      [] x.kind = "finite" ->
            IF x.val < 0 THEN 0 ELSE IF x.val > 65535 THEN 65535 ELSE x.val

(***************************************************************************)
(* Builder and sub-builders.  pc names the one live owner of the command   *)
(* list: the Builder, one of its sub-builders, the CommandList, or nothing *)
(* once the list has been consumed.                                        *)
(***************************************************************************)
NoSub == [kind |-> "none"]
NoOut == [status |-> "none", bytes |-> <<>>]
NoCall == [op |-> "none"]
NoCodec == [stage |-> "idle"]

SubBuilders == {"write", "read", "set_pins", "read_pins", "set_frequency", "wait_for_io"}

Builder_new ==
    /\ pc = "builder"
    /\ commands = <<>>
    /\ sub = NoSub

Builder_write_data(data) ==
    /\ pc = "builder"
    /\ pc' = "write"
    /\ sub' = [kind |-> "WriteBuilder", data |-> data,
               clock_direction |-> "Rising", bit_direction |-> "MsbFirst"]
    /\ call' = [op |-> "write_data", data |-> data,
                with_clock_direction |-> "never", with_bit_direction |-> "never"]
    /\ UNCHANGED <<commands, out, resp, overflow_checks, codec>>

Builder_read_data(length) ==
    /\ pc = "builder"
    /\ pc' = "read"
    /\ sub' = [kind |-> "ReadBuilder", length |-> length,
               clock_direction |-> "Rising", bit_direction |-> "MsbFirst"]
    /\ call' = [op |-> "read_data", length |-> length,
                with_clock_direction |-> "never", with_bit_direction |-> "never"]
    /\ UNCHANGED <<commands, out, resp, overflow_checks, codec>>

Builder_set_pins(range, direction, value) ==
    /\ pc = "builder"
    /\ pc' = "set_pins"
    /\ sub' = [kind |-> "SetPinsBuilder", range |-> range,
               direction |-> PinDirectionArray_from_u8(direction),
               value |-> PinValueArray_from_u8(value)]
    /\ call' = [op |-> "set_pins", range |-> range, direction |-> direction, value |-> value]
    /\ UNCHANGED <<commands, out, resp, overflow_checks, codec>>

Builder_read_pins(range) ==
    /\ pc = "builder"
    /\ pc' = "read_pins"
    /\ sub' = [kind |-> "ReadPinsBuilder", range |-> range]
    /\ call' = [op |-> "read_pins", range |-> range]
    /\ UNCHANGED <<commands, out, resp, overflow_checks, codec>>

Builder_set_frequency(frequency) ==
    /\ pc = "builder"
    /\ pc' = "set_frequency"
    /\ sub' = [kind |-> "SetFrequencyBuilder", frequency |-> frequency]
    /\ call' = [op |-> "set_frequency", frequency |-> frequency]
    /\ UNCHANGED <<commands, out, resp, overflow_checks, codec>>

Builder_wait_for_io(value) ==
    /\ pc = "builder"
    /\ pc' = "wait_for_io"
    /\ sub' = [kind |-> "WaitForIoBuilder", value |-> value]
    /\ call' = [op |-> "wait_for_io", value |-> value]
    /\ UNCHANGED <<commands, out, resp, overflow_checks, codec>>

ReadBuilder_with_clock_direction(direction) ==
    /\ pc = "read"
    /\ sub' = [sub EXCEPT !.clock_direction = direction]
    /\ call' = [call EXCEPT !.with_clock_direction = direction]
    /\ UNCHANGED <<pc, commands, out, resp, overflow_checks, codec>>

ReadBuilder_with_bit_direction(direction) ==
    /\ pc = "read"
    /\ sub' = [sub EXCEPT !.bit_direction = direction]
    /\ call' = [call EXCEPT !.with_bit_direction = direction]
    /\ UNCHANGED <<pc, commands, out, resp, overflow_checks, codec>>

WriteBuilder_with_clock_direction(direction) ==
    /\ pc = "write"
    /\ sub' = [sub EXCEPT !.clock_direction = direction]
    /\ call' = [call EXCEPT !.with_clock_direction = direction]
    /\ UNCHANGED <<pc, commands, out, resp, overflow_checks, codec>>

\* a bit-order setter that rebuilds the options from their defaults
WriteBuilder_with_bit_direction_from_default(direction) ==
    /\ pc = "write"
    /\ sub' = [sub EXCEPT !.bit_direction = direction, !.clock_direction = "Rising"]
    /\ call' = [call EXCEPT !.with_bit_direction = direction]
    /\ UNCHANGED <<pc, commands, out, resp, overflow_checks, codec>>

WriteBuilder_with_bit_direction(direction) ==
    /\ pc = "write"
    /\ sub' = [sub EXCEPT !.bit_direction = direction]
    /\ call' = [call EXCEPT !.with_bit_direction = direction]
    /\ UNCHANGED <<pc, commands, out, resp, overflow_checks, codec>>

\* the Command each sub-builder's commit pushes
ReadBuilder_commit(s) ==
    [kind |-> "ReadDataShiftBytes",
     options |-> DataShiftOptions(s.clock_direction, s.bit_direction),
     length |-> s.length]

WriteBuilder_commit(s) ==
    [kind |-> "WriteDataShiftBytes",
     options |-> DataShiftOptions(s.clock_direction, s.bit_direction),
     bytes |-> s.data]

SetPinsBuilder_commit(s) ==
    [kind |-> "SetBits", range |-> s.range, value |-> s.value, direction |-> s.direction]

SetFrequencyBuilder_commit_no_half(s) ==
    [kind |-> "SetClockDivisor", divisor |-> f64_as_u16(DivisorFloor_no_half(s.frequency))]

SetFrequencyBuilder_commit(s) ==
    [kind |-> "SetClockDivisor", divisor |-> f64_as_u16(DivisorFloor(s.frequency))]

WaitForIoBuilder_commit(s) == [kind |-> "WaitForIo", value |-> s.value]

ReadPinsBuilder_commit(s) == [kind |-> "ReadBits", range |-> s.range]

commit(s) ==
    CASE s.kind = "ReadBuilder"         -> ReadBuilder_commit(s)
      [] s.kind = "WriteBuilder"        -> WriteBuilder_commit(s)
      [] s.kind = "SetPinsBuilder"      -> SetPinsBuilder_commit(s)
      [] s.kind = "SetFrequencyBuilder" -> SetFrequencyBuilder_commit(s)
      [] s.kind = "WaitForIoBuilder"    -> WaitForIoBuilder_commit(s)
      [] s.kind = "ReadPinsBuilder"     -> ReadPinsBuilder_commit(s)

\* the terminal flatten of `list`: the bytes, or the panic of an encoding
Flattened(list) ==
    LET r == CommandList_into_iter(list)
    IN  /\ commands' = list
        /\ sub' = NoSub
        /\ pc' = IF r.ok THEN "built" ELSE "panicked"
        /\ out' = [status |-> IF r.ok THEN "ok" ELSE "panic", bytes |-> r.bytes]
        /\ UNCHANGED <<resp, call, overflow_checks, codec>>

\* a commit that puts the new command in front of the list
then_prepending ==
    /\ pc \in SubBuilders
    /\ commands' = <<commit(sub)>> \o commands
    /\ sub' = NoSub
    /\ pc' = "builder"
    /\ UNCHANGED <<out, resp, call, overflow_checks, codec>>

\* builder_funcs!: then(self) -> Builder { self.commit() }
then ==
    /\ pc \in SubBuilders
    /\ commands' = Append(commands, commit(sub))
    /\ sub' = NoSub
    /\ pc' = "builder"
    /\ UNCHANGED <<out, resp, call, overflow_checks, codec>>

\* a shortcut that flattens the parent's list without committing
SubBuilder_build_uncommitted ==
    /\ pc \in SubBuilders
    /\ Flattened(commands)

\* builder_funcs!: build(self) -> Vec<u8> { self.commit().build() }
SubBuilder_build ==
    /\ pc \in SubBuilders
    /\ Flattened(Append(commands, commit(sub)))

\* builder.rs: Builder::build(self) -> Vec<u8>
Builder_build ==
    /\ pc = "builder"
    /\ Flattened(commands)

\* lib.rs: Builder::build(self) -> CommandList
Builder_build_list ==
    /\ pc = "builder"
    /\ pc' = "list"
    /\ UNCHANGED <<commands, sub, out, resp, call, overflow_checks, codec>>

\* Into<Vec<u8>> for CommandList
CommandList_into_vec ==
    /\ pc = "list"
    /\ Flattened(commands)

CommandList_expected_response_length ==
    /\ pc = "list"
    /\ pc' = "measured"
    /\ resp' = expected_response_length_fold(commands)
    /\ UNCHANGED <<commands, sub, out, call, overflow_checks, codec>>

(***************************************************************************)
(* Bit-array conversions applied by a caller: a byte or an array is drawn, *)
(* converted, and converted back.                                          *)
(***************************************************************************)
AllOff(ty) == [i \in 1..8 |-> IF ty = "value" THEN "Low" ELSE "Input"]

CodecStart(ty, origin, byte, array) ==
    [stage |-> "codec", ty |-> ty, origin |-> origin, holds |-> origin, steps |-> 0,
     byte_in |-> byte, array_in |-> array, byte |-> byte, array |-> array]

PinValueArray_from ==
    /\ codec.stage = "codec" /\ codec.ty = "value" /\ codec.holds = "byte"
    /\ codec' = [codec EXCEPT !.array = PinValueArray_from_u8(codec.byte),
                              !.holds = "array", !.steps = @ + 1]
    /\ UNCHANGED <<pc, commands, sub, out, resp, call, overflow_checks>>

PinValueArray_into ==
    /\ codec.stage = "codec" /\ codec.ty = "value" /\ codec.holds = "array"
    /\ codec' = [codec EXCEPT !.byte = PinValueArray_into_u8(codec.array),
                              !.holds = "byte", !.steps = @ + 1]
    /\ UNCHANGED <<pc, commands, sub, out, resp, call, overflow_checks>>

PinDirectionArray_from ==
    /\ codec.stage = "codec" /\ codec.ty = "direction" /\ codec.holds = "byte"
    /\ codec' = [codec EXCEPT !.array = PinDirectionArray_from_u8(codec.byte),
                              !.holds = "array", !.steps = @ + 1]
    /\ UNCHANGED <<pc, commands, sub, out, resp, call, overflow_checks>>

PinDirectionArray_into ==
    /\ codec.stage = "codec" /\ codec.ty = "direction" /\ codec.holds = "array"
    /\ codec' = [codec EXCEPT !.byte = PinDirectionArray_into_u8(codec.array),
                              !.holds = "byte", !.steps = @ + 1]
    /\ UNCHANGED <<pc, commands, sub, out, resp, call, overflow_checks>>

\* a caller converts a DataShiftOptions value into its control byte
DataShiftOptions_into ==
    /\ codec.stage = "options"
    /\ codec' = [codec EXCEPT !.byte = DataShiftOptions_into_u8(codec.options), !.steps = @ + 1]
    /\ UNCHANGED <<pc, commands, sub, out, resp, call, overflow_checks>>

(***************************************************************************)
(* The caller's inputs.                                                    *)
(***************************************************************************)
Ramp(n) == [i \in 1..n |-> i % 256]

Options == {DataShiftOptions(c, b) : c \in ClockDirection, b \in BitDirection}

\* chains of several commands
Payloads == {<<>>, <<16, 1, 32, 1>>}
ReadLengths == {0, 15}
PinArgs == {<<52, 204>>}
Frequencies == {Finite(5000, 1), Finite(0, 1)}

\* a single command
WidePayloads ==
    {<<>>, <<1>>, <<13, 236, 175>>, <<16, 1, 32, 1>>} \cup {Ramp(n) : n \in {255, 256, 257, 300, 65536, 65537}}
WideReadLengths == (0..600) \cup (65000..65535)
WidePinArgs ==
    {<<d, v>> : d \in 0..255, v \in {52, 204}} \cup {<<d, v>> : d \in {52, 204}, v \in 0..255}
WideFrequencies ==
    {Finite(n, 1) : n \in (-3..300) \cup {-5000, 5000, 1000000, 4000000, 6000000,
                                          12000000, 12000001, 24000000}}
    \cup {Finite(3479, 38), Finite(1, 2), Finite(183, 2), Finite(-1, 2), NaN, Infinity}

\* commands a caller can put into a CommandList without the Builder
DirectCmds ==
    {[kind |-> "ReadDataShiftBits", options |-> DataShiftOptions("Rising", "MsbFirst"), length |-> n] :
        n \in {0, 3, 9}}
    \cup {[kind |-> "WriteDataShiftBits", options |-> DataShiftOptions("Falling", "LsbFirst"),
           bits |-> 165, length |-> 8],
          [kind |-> "ReadDataShiftBytes", options |-> DataShiftOptions("Rising", "MsbFirst"),
           length |-> 328],
          [kind |-> "WriteDataShiftBytes", options |-> DataShiftOptions("Rising", "MsbFirst"),
           bytes |-> <<1>>],
          [kind |-> "SetBits", range |-> "High", value |-> PinValueArray_from_u8(204),
           direction |-> PinDirectionArray_from_u8(52)],
          [kind |-> "ReadBits", range |-> "High"],
          [kind |-> "SetLoopback", enable |-> TRUE],
          [kind |-> "SetLoopback", enable |-> FALSE],
          [kind |-> "SetClockDivisor", divisor |-> 5],
          [kind |-> "WaitForIo", value |-> "Low"]}

WideDirectCmds ==
    {[kind |-> "ReadDataShiftBits", options |-> o, length |-> n] : o \in Options, n \in 0..10}
    \cup {[kind |-> "ReadDataShiftBits", options |-> o, length |-> 255] : o \in Options}
    \cup {[kind |-> "WriteDataShiftBits", options |-> o, bits |-> 165, length |-> n] :
            o \in Options, n \in 0..10}
    \cup {[kind |-> "SetLoopback", enable |-> e] : e \in BOOLEAN}
    \cup {[kind |-> "SetClockDivisor", divisor |-> d] : d \in {0, 5, 1199, 65535}}

Lists(cmds, n) == UNION {[1..k -> cmds] : k \in 0..n}

(***************************************************************************)
(* Specifications.                                                         *)
(***************************************************************************)
Idle ==
    /\ overflow_checks \in BOOLEAN
    /\ sub = NoSub
    /\ out = NoOut
    /\ resp = 0
    /\ call = NoCall

\* Builder::new(), or a CommandList made from a Vec of commands
Init ==
    /\ Idle
    /\ codec = NoCodec
    /\ \/ Builder_new
       \/ pc = "list" /\ commands \in Lists(DirectCmds, MaxCmds)

InitOne ==
    /\ Idle
    /\ codec = NoCodec
    /\ \/ Builder_new
       \/ pc = "list" /\ commands \in {<<c>> : c \in WideDirectCmds}

InitCodec ==
    /\ Idle
    /\ overflow_checks
    /\ pc = "codec"
    /\ commands = <<>>
    /\ \/ \E ty \in {"value", "direction"} :
             \/ \E b \in 0..255 : codec = CodecStart(ty, "byte", b, AllOff(ty))
             \/ \E a \in (IF ty = "value" THEN PinValueArray ELSE PinDirectionArray) :
                   codec = CodecStart(ty, "array", 0, a)
       \/ \E o \in Options : codec = [stage |-> "options", options |-> o, steps |-> 0, byte |-> 0]

\* the caller chains at most `cap` operations and draws their arguments
\* from the given sets
Steps(cap, payloads, lengths, pinargs, frequencies) ==
    \/ Len(commands) < cap /\ \E data \in payloads : Builder_write_data(data)
    \/ Len(commands) < cap /\ \E length \in lengths : Builder_read_data(length)
    \/ Len(commands) < cap /\ \E range \in PinRange, a \in pinargs : Builder_set_pins(range, a[1], a[2])
    \/ Len(commands) < cap /\ \E range \in PinRange : Builder_read_pins(range)
    \/ Len(commands) < cap /\ \E frequency \in frequencies : Builder_set_frequency(frequency)
    \/ Len(commands) < cap /\ \E value \in PinValue : Builder_wait_for_io(value)
    \/ \E direction \in ClockDirection : ReadBuilder_with_clock_direction(direction)
    \/ \E direction \in BitDirection : ReadBuilder_with_bit_direction(direction)
    \/ \E direction \in ClockDirection : WriteBuilder_with_clock_direction(direction)
    \/ \E direction \in BitDirection : WriteBuilder_with_bit_direction(direction)
    \/ then
    \/ SubBuilder_build
    \/ Builder_build
    \/ Builder_build_list
    \/ CommandList_into_vec
    \/ CommandList_expected_response_length

Next == Steps(MaxCmds, Payloads, ReadLengths, PinArgs, Frequencies)

NextOne == Steps(1, WidePayloads, WideReadLengths, WidePinArgs, WideFrequencies)

NextCodec ==
    \/ codec.steps < 2 /\ PinValueArray_from
    \/ codec.steps < 2 /\ PinValueArray_into
    \/ codec.steps < 2 /\ PinDirectionArray_from
    \/ codec.steps < 2 /\ PinDirectionArray_into
    \/ codec.steps < 1 /\ DataShiftOptions_into

Spec == Init /\ [][Next]_vars

SpecOne == InitOne /\ [][NextOne]_vars

SpecCodec == InitCodec /\ [][NextCodec]_vars

(***************************************************************************)
(* Properties.                                                             *)
(***************************************************************************)
Flag(cond, weight) == IF cond THEN weight ELSE 0

\* the opcode of a byte shift as the encoding table gives it
ClaimedOpcode(base, options) ==
    base + Flag(options.clock_direction = "Falling", 1) + Flag(options.bit_direction = "LsbFirst", 8)

\* C1: the terminal flatten returns the commands' own encodings laid end to
\* end in the order they were finalized: the k-th command's bytes occupy the
\* k-th segment of the output and nothing else is in it; the flatten panics
\* exactly when the encoding of one of the commands does.
C1_FlattenIsConcatenation ==
    LET n == Len(commands)
        enc(i) == Command_into_vec(commands[i])
        off[i \in 0..n] == IF i = 0 THEN 0 ELSE off[i - 1] + Len(enc(i).bytes)
    IN  /\ pc = "built" =>
            /\ out.status = "ok"
            /\ Len(out.bytes) = off[n]
            /\ \A i \in 1..n : SubSeq(out.bytes, off[i - 1] + 1, off[i]) = enc(i).bytes
        /\ pc \in {"built", "panicked"} =>
            (pc = "panicked" <=> \E i \in 1..n : ~enc(i).ok)

C1_Witness ==
    /\ pc = "built"
    /\ Len(commands) >= 2
    /\ commands[1].kind = "ReadDataShiftBytes"
    /\ commands[2].kind = "WriteDataShiftBytes"
    /\ out.bytes = <<32, 14, 0, 16, 3, 0, 16, 1, 32, 1>>

\* C2: a finalized write_data(payload) with a non-empty payload encodes as
\* [opcode, lo, hi] followed by the payload, opcode = 0x10 + 1 (Falling)
\* + 8 (LsbFirst), and lo + 256 * hi the low 16 bits of payload length - 1;
\* its encoding never panics.
C2_WriteEncoding ==
    (call.op = "write_data" /\ call.data # <<>>) =>
        /\ pc # "panicked"
        /\ pc = "built" =>
            /\ Len(commands) = 1
            /\ LET n == Len(call.data) - 1
               IN  out.bytes = <<ClaimedOpcode(16, commands[1].options),
                                 n % 256, (n \div 256) % 256>> \o call.data
            /\ (/\ call.data = <<16, 1, 32, 1>>
                /\ commands[1].options = DataShiftOptions("Rising", "MsbFirst")) =>
                  out.bytes = <<16, 3, 0, 16, 1, 32, 1>>

C2_Witness ==
    /\ pc = "built"
    /\ call.op = "write_data"
    /\ Len(call.data) = 257
    /\ commands[1].options = DataShiftOptions("Falling", "LsbFirst")
    /\ SubSeq(out.bytes, 1, 3) = <<25, 0, 1>>

\* C3: a finalized read_data(length) with length in 1..65535 encodes as
\* exactly [opcode, lo, hi], opcode = 0x20 + 1 (Falling, the write-clock-edge
\* bit) + 8 (LsbFirst), lo + 256 * hi = length - 1; its encoding never
\* panics.
C3_ReadEncoding ==
    (call.op = "read_data" /\ call.length \in 1..65535) =>
        /\ pc # "panicked"
        /\ pc = "built" =>
            /\ Len(commands) = 1
            /\ out.bytes = <<ClaimedOpcode(32, commands[1].options),
                             (call.length - 1) % 256, (call.length - 1) \div 256>>

C3_Witness ==
    /\ pc = "built"
    /\ call.op = "read_data"
    /\ call.length = 328
    /\ commands[1].options = DataShiftOptions("Falling", "LsbFirst")
    /\ out.bytes = <<41, 71, 1>>

\* C4: a finalized set_pins(range, d, v) encodes as exactly [opcode, v, d],
\* opcode 0x80 for Low and 0x82 for High.
C4_SetPinsEncoding ==
    call.op = "set_pins" =>
        /\ pc # "panicked"
        /\ pc = "built" =>
            out.bytes = <<IF call.range = "Low" THEN 128 ELSE 130, call.value, call.direction>>

C4_Witness ==
    /\ pc = "built"
    /\ call.op = "set_pins"
    /\ call.range = "High"
    /\ call.direction = 1
    /\ call.value = 204
    /\ out.bytes = <<130, 204, 1>>

\* C5 as stated: Low range, direction mask 0xCC and value 0x34 flatten to
\* [0x80, 0xCC, 0x34].
C5_Original ==
    (/\ pc = "built"
     /\ call.op = "set_pins"
     /\ call.range = "Low"
     /\ call.direction = 204
     /\ call.value = 52) => out.bytes = <<128, 204, 52>>

\* C5 amended: Low range, direction mask 0x34 and value 0xCC flatten to
\* [0x80, 0xCC, 0x34] (the value byte precedes the direction byte).
C5_SetPinsScenario ==
    (/\ pc = "built"
     /\ call.op = "set_pins"
     /\ call.range = "Low"
     /\ call.direction = 52
     /\ call.value = 204) => out.bytes = <<128, 204, 52>>

C5_Witness ==
    /\ pc = "built"
    /\ call.op = "set_pins"
    /\ call.range = "Low"
    /\ call.direction = 52
    /\ call.value = 204
    /\ commands[1].kind = "SetBits"

\* floor(6_000_000 / f - 0.5) for a finite positive f = num / den
ClaimedDivisor(f) == (12000000 * f.den - f.num) \div (2 * f.num)

DivisorRepresentable(f) ==
    /\ f.kind = "finite"
    /\ f.num > 0
    /\ ClaimedDivisor(f) \in 0..65535

\* C6: a finalized set_frequency(f) whose divisor d = floor(6_000_000 / f -
\* 0.5) lies in 0..65535 leaves exactly one SetClockDivisor command, encoded
\* as [0x86, d mod 256, d div 256]; 5000 gives [0x86, 0xAF, 0x04] and
\* 1_000_000 gives [0x86, 0x05, 0x00].
C6_FrequencyEncoding ==
    (call.op = "set_frequency" /\ pc = "built") =>
        /\ DivisorRepresentable(call.frequency) =>
            /\ Len(commands) = 1
            /\ commands[1].kind = "SetClockDivisor"
            /\ out.bytes = <<134, ClaimedDivisor(call.frequency) % 256,
                             ClaimedDivisor(call.frequency) \div 256>>
        /\ call.frequency = Finite(5000, 1) => out.bytes = <<134, 175, 4>>
        /\ call.frequency = Finite(1000000, 1) => out.bytes = <<134, 5, 0>>

C6_Witness ==
    /\ pc = "built"
    /\ call.op = "set_frequency"
    /\ call.frequency = Finite(3479, 38)
    /\ out.bytes = <<134, 255, 255>>

\* the bit of a byte that an array element stands for
IsOn(ty, element) == element = (IF ty = "value" THEN "High" ELSE "Output")

\* C7: for both array types, element i of from_byte(b) is High/Output
\* exactly when bit i of b is 1, to_byte(from_byte(b)) = b, and
\* from_byte(to_byte(a)) = a.
C7_CodecRoundTrip ==
    codec.stage = "codec" =>
        /\ (codec.origin = "byte" /\ codec.steps >= 1) =>
              \A i \in 0..7 :
                  IsOn(codec.ty, codec.array[i + 1]) <=> (codec.byte_in \div 2 ^ i) % 2 = 1
        /\ (codec.origin = "byte" /\ codec.steps = 2) => codec.byte = codec.byte_in
        /\ (codec.origin = "array" /\ codec.steps = 2) => codec.array = codec.array_in

C7_Witness ==
    /\ codec.stage = "codec"
    /\ codec.ty = "value"
    /\ codec.origin = "byte"
    /\ codec.steps = 2
    /\ codec.byte_in = 51
    /\ codec.array = <<"High", "High", "Low", "Low", "High", "High", "Low", "Low">>
    /\ codec.byte = 51

\* the response length of one command as the specification states it
ClaimedResponseLength(cmd) ==
    IF cmd.kind = "ReadDataShiftBytes" THEN cmd.length
    ELSE IF cmd.kind \in {"ReadDataShiftBits", "ReadBits", "WaitForIo"} THEN 1
    ELSE 0

\* C8: expected_response_length of a list is the sum of its commands'
\* values: the requested length for a byte-shift read, 1 for a bit-shift
\* read, a pin read and a wait-for-io, 0 for every other command.
C8_ResponseLengthSum ==
    pc = "measured" =>
        LET total[i \in 0..Len(commands)] ==
                IF i = 0 THEN 0 ELSE total[i - 1] + ClaimedResponseLength(commands[i])
        IN  resp = total[Len(commands)]

C8_Witness ==
    /\ pc = "measured"
    /\ Len(commands) = 2
    /\ commands[1].kind = "ReadDataShiftBits"
    /\ commands[1].length = 3
    /\ commands[2].kind = "ReadDataShiftBytes"
    /\ resp = 329

\* a shift request whose length has no count - 1 encoding
InvalidShiftLength(cmd) ==
    \/ cmd.kind = "ReadDataShiftBytes" /\ cmd.length = 0
    \/ cmd.kind = "WriteDataShiftBytes" /\ cmd.bytes = <<>>
    \/ cmd.kind \in {"ReadDataShiftBits", "WriteDataShiftBits"} /\ cmd.length \notin 1..8

\* C9: a shift request with an unrepresentable length is rejected at
\* finalization: it never enters the Builder's list, no byte stream is
\* produced for it, and the flatten never aborts.
C9_InvalidShiftLengthReported ==
    /\ pc # "panicked"
    /\ pc \in {"builder", "built"} =>
          \A i \in 1..Len(commands) : ~InvalidShiftLength(commands[i])

\* a frequency the divisor formula cannot serve
InvalidFrequency(f) ==
    \/ f.kind = "inf"
    \/ f.kind = "finite" /\ f.num <= 0
    \/ f.kind = "finite" /\ f.num > 0 /\ ClaimedDivisor(f) \notin 0..65535

\* C10: set_frequency with a frequency <= 0 or an unrepresentable divisor is
\* rejected at finalization: no SetClockDivisor command is appended for it.
C10_InvalidFrequencyReported ==
    (call.op = "set_frequency" /\ InvalidFrequency(call.frequency)) =>
        \A i \in 1..Len(commands) : commands[i].kind # "SetClockDivisor"

\* what a terminal flatten of `list` hands back
FlattenResult(list) ==
    LET r == CommandList_into_iter(list)
    IN  [status |-> IF r.ok THEN "ok" ELSE "panic", bytes |-> r.bytes]

\* C11: from every sub-builder, in every builder state an earlier chain has
\* reached, then() appends exactly the one command commit makes and returns
\* no bytes; build() on the Builder flattens the list as it stands; and the
\* sub-builder's build() shortcut ends with the list and the bytes (or the
\* panic) that then() followed by build() ends with.
C11_ShortcutIsThenBuild ==
    [][/\ (pc \in SubBuilders /\ pc' = "builder") =>
            /\ commands' = Append(commands, commit(sub))
            /\ out' = out
       /\ (pc = "builder" /\ pc' \in {"built", "panicked"}) =>
            /\ commands' = commands
            /\ out' = FlattenResult(commands)
       /\ (pc \in SubBuilders /\ pc' \in {"built", "panicked"}) =>
            /\ commands' = Append(commands, commit(sub))
            /\ out' = FlattenResult(Append(commands, commit(sub)))]_vars

C11_Witness ==
    /\ pc = "built"
    /\ Len(commands) = 2
    /\ commands[1].kind = "WriteDataShiftBytes"
    /\ call.op = "wait_for_io"
    /\ call.value = "Low"
    /\ out.bytes = <<16, 3, 0, 16, 1, 32, 1, 137>>

\* C12: the parameterless commands encode as one byte: read_pins 0x81
\* (Low) / 0x83 (High), wait_for_io 0x88 (High) / 0x89 (Low), SetLoopback
\* 0x84 (enable) / 0x85 (disable).
C12_OneByteCommands ==
    (pc = "built" /\ Len(commands) = 1) =>
        /\ call.op = "read_pins" =>
              out.bytes = <<IF call.range = "Low" THEN 129 ELSE 131>>
        /\ call.op = "wait_for_io" =>
              out.bytes = <<IF call.value = "High" THEN 136 ELSE 137>>
        /\ commands[1].kind = "SetLoopback" =>
              out.bytes = <<IF commands[1].enable THEN 132 ELSE 133>>

C12_Witness ==
    /\ pc = "built"
    /\ call.op = "wait_for_io"
    /\ call.value = "High"
    /\ out.bytes = <<136>>

\* the Command variant each sub-builder finalizes into
CommittedKind(p) ==
    CASE p = "write"         -> "WriteDataShiftBytes"
      [] p = "read"          -> "ReadDataShiftBytes"
      [] p = "set_pins"      -> "SetBits"
      [] p = "read_pins"     -> "ReadBits"
      [] p = "set_frequency" -> "SetClockDivisor"
      [] p = "wait_for_io"   -> "WaitForIo"

\* C13: the command list is append-only.  A new Builder holds the empty
\* list; every finalization (then, or the commit inside the build shortcut)
\* makes the list exactly one longer, with the new command of the
\* sub-builder's kind last and every earlier command where and what it was;
\* starting an operation and calling a setter leave the list unchanged.
C13_AppendOnly ==
    /\ []((pc = "builder" /\ call = NoCall) => commands = <<>>)
    /\ [][/\ (pc \in SubBuilders /\ pc' \notin SubBuilders) =>
                /\ Len(commands') = Len(commands) + 1
                /\ SubSeq(commands', 1, Len(commands)) = commands
                /\ commands'[Len(commands')].kind = CommittedKind(pc)
          /\ (pc' \in SubBuilders) => commands' = commands]_vars

C13_Witness ==
    /\ pc = "builder"
    /\ Len(commands) = 2
    /\ commands[1].kind = "SetBits"
    /\ commands[2].kind = "ReadDataShiftBytes"
    /\ call.op = "read_data"

\* the value a knob holds: the latest setter argument, or its default
Knob(latest, default) == IF latest = "never" THEN default ELSE latest

\* the options `o` and the payload hold what the caller's calls asked for
Held(o, payload) ==
    /\ o.clock_direction = Knob(call.with_clock_direction, "Rising")
    /\ o.bit_direction = Knob(call.with_bit_direction, "MsbFirst")
    /\ payload = (IF call.op = "write_data" THEN call.data ELSE call.length)

LastCommand == commands[Len(commands)]

\* C14: in a read or write sub-builder, and in the command it finalizes
\* into, each of the two knobs holds the argument of the latest call of its
\* setter, or its default (Rising, MsbFirst) when that setter was never
\* called, and the payload or length is the one the operation was started
\* with; a setter call changes neither the other knob, nor the payload or
\* length, nor the parent's command list.
C14_LastSetterWins ==
    /\ [](/\ pc = "write" => Held(sub, sub.data)
          /\ pc = "read" => Held(sub, sub.length)
          /\ (pc \in {"builder", "built", "panicked"} /\ call.op = "write_data") =>
                /\ LastCommand.kind = "WriteDataShiftBytes"
                /\ Held(LastCommand.options, LastCommand.bytes)
          /\ (pc \in {"builder", "built", "panicked"} /\ call.op = "read_data") =>
                /\ LastCommand.kind = "ReadDataShiftBytes"
                /\ Held(LastCommand.options, LastCommand.length))
    /\ [][(pc \in {"read", "write"} /\ pc' = pc) =>
            /\ commands' = commands
            /\ pc = "write" => sub'.data = sub.data
            /\ pc = "read" => sub'.length = sub.length
            /\ call'.with_clock_direction = call.with_clock_direction =>
                    sub'.clock_direction = sub.clock_direction
            /\ call'.with_bit_direction = call.with_bit_direction =>
                    sub'.bit_direction = sub.bit_direction]_vars

C14_Witness ==
    /\ pc = "builder"
    /\ Len(commands) = 2
    /\ call.op = "write_data"
    /\ call.with_clock_direction = "Falling"
    /\ call.with_bit_direction = "never"
    /\ commands[2] = [kind |-> "WriteDataShiftBytes",
                      options |-> DataShiftOptions("Falling", "MsbFirst"),
                      bytes |-> <<16, 1, 32, 1>>]

\* C15: every conversion of DataShiftOptions into a control byte (the direct
\* conversion and the opcode of each of the four shift encodings) puts the
\* clock direction into bit 0 and leaves bits 2 and 6 clear.
C15_ClockInWriteEdgeBit ==
    LET Good(byte, o) ==
            /\ Bit(byte, 0) = Flag(o.clock_direction = "Falling", 1)
            /\ Bit(byte, 2) = 0
            /\ Bit(byte, 6) = 0
    IN  /\ (codec.stage = "options" /\ codec.steps = 1) => Good(codec.byte, codec.options)
        /\ \A o \in Options :
              /\ Good(WriteDataShiftBits_into_vec(
                         [kind |-> "WriteDataShiftBits", options |-> o, bits |-> 165, length |-> 8]).bytes[1], o)
              /\ Good(ReadDataShiftBits_into_vec(
                         [kind |-> "ReadDataShiftBits", options |-> o, length |-> 8]).bytes[1], o)
              /\ Good(WriteDataShiftBytes_into_vec(
                         [kind |-> "WriteDataShiftBytes", options |-> o, bytes |-> <<1>>]).bytes[1], o)
              /\ Good(ReadDataShiftBytes_into_vec(
                         [kind |-> "ReadDataShiftBytes", options |-> o, length |-> 1]).bytes[1], o)

\* C16: the 16-bit length field of an encoded write of a non-empty payload
\* equals payload length - 1 and so agrees with the number of payload bytes
\* that follow it.
C16_LengthFieldCountsPayload ==
    (pc = "built" /\ call.op = "write_data" /\ call.data # <<>>) =>
        /\ out.bytes[2] + 256 * out.bytes[3] = Len(call.data) - 1
        /\ out.bytes[2] + 256 * out.bytes[3] + 1 = Len(out.bytes) - 3

====
